---------------------------- MODULE Spec2Model ----------------------------
(***************************************************************************)
(* A model of llm-mux's model-capability pipeline: the tokenizer cache and *)
(* the Gemini payload reader (package util), the thinking suffix parser    *)
(* and budget resolver (package util), the Claude/IR request translator    *)
(* (package providers) and the Claude login flow (package login).          *)
(*                                                                         *)
(* Strings that the code inspects character by character (model names,     *)
(* the pasted authorisation code) are tuples of one-character strings, so  *)
(* that HasSuffix, containsAny and TrimSpace are computed as the code      *)
(* computes them.                                                          *)
(***************************************************************************)
EXTENDS Integers, Sequences, FiniteSets, TLC

VARIABLES
    \* ---- tokenizer cache (getOrCreateTokenizer) ----
    tokenizerCache,     \* baseModel -> tokenizer instance (a partial function)
    rwReaders,          \* threads holding tokenizerCacheMu.RLock
    rwWriter,           \* thread holding tokenizerCacheMu.Lock, 0 when free
    tpc,                \* thread -> position inside getOrCreateTokenizer
    tbase,              \* thread -> baseModel of its call
    ttok,               \* thread -> local (tok, ok) / constructed tok
    tret,               \* thread -> returned (tok, err), or Nil
    created,            \* every instance NewLocalTokenizer has returned
    \* ---- Gemini payload reader ----
    payload,            \* the native payload P
    nativeOut,          \* result for P
    wrappedOut,         \* result for {"request": P}
    \* ---- suffix parser / budget resolver ----
    modelName,          \* the (possibly suffixed) model name
    registry,           \* the global model registry: name -> record
    suffixLevel,        \* argument / parsed level
    userBudget,         \* argument of GetThinkingBudget
    parsed,             \* result of ParseThinkingSuffix, or Nil
    lookupName,         \* the name handed on to GetThinkingBudget, or NoName
    resolved,           \* result of GetThinkingBudget, or Nil
    \* ---- request translator ----
    cfg,                \* the *ThinkingConfig receiver of ApplyToClaude
    body,               \* the Claude request body
    req,                \* the unified request (ir.UnifiedChatRequest)
    origBody,           \* body as it came in
    origReq,            \* req as it came in
    prevBody,           \* body before the last operation
    prevReq,            \* req before the last operation
    lastOp,             \* the last operation applied, "" before the first
    rep,                \* the last two operations were the same one
    nOps,               \* number of operations applied
    \* ---- Claude login ----
    lpc,                \* position inside ClaudeAuthenticator.Login
    lin,                \* the arguments of the call: cfg == nil, ctx == nil
    cancelledAt,        \* position at which ctx was cancelled, "" while it is not
    stdinEv,            \* what scanner.Scan() delivered, or Nil
    code,               \* strings.TrimSpace(scanner.Text())
    exchangeCalls,      \* number of ExchangeCodeForTokens invocations
    lret                \* returned (auth, err)

tokVars == <<tokenizerCache, rwReaders, rwWriter, tpc, tbase, ttok, tret, created>>
gemVars == <<payload, nativeOut, wrappedOut>>
resVars == <<modelName, registry, suffixLevel, userBudget, parsed, lookupName, resolved>>
trVars  == <<cfg, body, req, origBody, origReq, prevBody, prevReq, lastOp, rep, nOps>>
logVars == <<lpc, lin, cancelledAt, stdinEv, code, exchangeCalls, lret>>
vars    == <<tokVars, gemVars, resVars, trVars, logVars>>

Nil == [t |-> "nil"]
\* no model name (names are tuples of characters)
NoName == <<"nil">>

(***************************************************************************)
(* Each specification runs one component; the others stay idle.            *)
(***************************************************************************)
TokIdle == /\ tokenizerCache = Nil /\ rwReaders = Nil /\ rwWriter = Nil /\ tpc = Nil
           /\ tbase = Nil /\ ttok = Nil /\ tret = Nil /\ created = Nil
GemIdle == /\ payload = Nil /\ nativeOut = Nil /\ wrappedOut = Nil
ResIdle == /\ modelName = Nil /\ registry = Nil /\ suffixLevel = Nil /\ userBudget = Nil
           /\ parsed = Nil /\ lookupName = NoName /\ resolved = Nil
TrIdle  == /\ cfg = Nil /\ body = Nil /\ req = Nil /\ origBody = Nil /\ origReq = Nil
           /\ prevBody = Nil /\ prevReq = Nil
           /\ lastOp = Nil /\ rep = Nil /\ nOps = Nil
LogIdle == /\ lpc = Nil /\ lin = Nil /\ cancelledAt = Nil /\ stdinEv = Nil /\ code = Nil
           /\ exchangeCalls = Nil /\ lret = Nil

TokFrame == UNCHANGED <<gemVars, resVars, trVars, logVars>>
GemFrame == UNCHANGED <<tokVars, resVars, trVars, logVars>>
ResFrame == UNCHANGED <<tokVars, gemVars, trVars, logVars>>
TrFrame  == UNCHANGED <<tokVars, gemVars, resVars, logVars>>
LogFrame == UNCHANGED <<tokVars, gemVars, resVars, trVars>>

(***************************************************************************)
(* Strings as tuples of characters.                                        *)
(***************************************************************************)
\* strings.HasSuffix(s, suffix)
HasSuffix(s, suffix) ==
    /\ Len(s) >= Len(suffix)
    /\ SubSeq(s, Len(s) - Len(suffix) + 1, Len(s)) = suffix

\* containsAny(s, substrs...): some sub occurs in s at some offset i
containsAny(s, substrs) ==
    \E sub \in substrs :
        /\ Len(s) >= Len(sub)
        /\ \E i \in 0..(Len(s) - Len(sub)) : SubSeq(s, i + 1, i + Len(sub)) = sub

s_gemini == <<"g", "e", "m", "i", "n", "i", "-">>
s_gemini_3   == s_gemini \o <<"3">>
s_gemini_2_5 == s_gemini \o <<"2", ".", "5">>
s_gemini_2_0 == s_gemini \o <<"2", ".", "0">>
s_gemini_1_5 == s_gemini \o <<"1", ".", "5">>
s_gemini_1_0 == s_gemini \o <<"1", ".", "0">>
s_gemini_pro == s_gemini \o <<"p", "r", "o">>

\* normalizeModelForTokenizer(model)
normalizeModelForTokenizer(model) ==
    IF containsAny(model, {s_gemini_3, s_gemini_2_5, s_gemini_2_0}) THEN "gemini-2.0-flash"
    ELSE IF containsAny(model, {s_gemini_1_5}) THEN "gemini-1.5-flash"
    ELSE IF containsAny(model, {s_gemini_1_0, s_gemini_pro}) THEN "gemini-1.0-pro"
    ELSE "gemini-2.0-flash"


(***************************************************************************)
(* Tokenizer cache: getOrCreateTokenizer under tokenizerCacheMu.           *)
(***************************************************************************)
MaxThreads == 3
Threads == 1..MaxThreads

m_gemini_3_pro == s_gemini_3 \o <<"-", "p", "r", "o">>
m_gemini_1_5_pro == s_gemini_1_5 \o <<"-", "p", "r", "o">>
m_claude == <<"c", "l", "a", "u", "d", "e">>
TokModels == {m_gemini_3_pro, m_gemini_1_5_pro, m_claude}
TokKeys == {"gemini-2.0-flash", "gemini-1.5-flash", "gemini-1.0-pro"}

TokInit ==
    /\ tokenizerCache = [k \in TokKeys |-> Nil]
    /\ rwReaders = {}
    /\ rwWriter = 0
    /\ tpc = [t \in Threads |-> "idle"]
    /\ tbase = [t \in Threads |-> ""]
    /\ ttok = [t \in Threads |-> Nil]
    /\ tret = [t \in Threads |-> Nil]
    /\ created = {}

\* line 20: baseModel := normalizeModelForTokenizer(model)
TokCall(t, model) ==
    /\ tpc[t] = "idle"
    /\ tbase' = [tbase EXCEPT ![t] = normalizeModelForTokenizer(model)]
    /\ tpc' = [tpc EXCEPT ![t] = "rlock"]
    /\ UNCHANGED <<tokenizerCache, rwReaders, rwWriter, ttok, tret, created>>
    /\ TokFrame

\* line 22: tokenizerCacheMu.RLock()
TokRLock(t) ==
    /\ tpc[t] = "rlock"
    /\ rwWriter = 0
    /\ rwReaders' = rwReaders \cup {t}
    /\ tpc' = [tpc EXCEPT ![t] = "read"]
    /\ UNCHANGED <<tokenizerCache, rwWriter, tbase, ttok, tret, created>>
    /\ TokFrame

\* line 23: tok, ok := tokenizerCache[baseModel]
TokRead(t) ==
    /\ tpc[t] = "read"
    /\ ttok' = [ttok EXCEPT ![t] = [tok |-> tokenizerCache[tbase[t]],
                                    ok |-> tokenizerCache[tbase[t]] # Nil]]
    /\ tpc' = [tpc EXCEPT ![t] = "runlock"]
    /\ UNCHANGED <<tokenizerCache, rwReaders, rwWriter, tbase, tret, created>>
    /\ TokFrame

\* lines 24-27: RUnlock(); if ok { return tok, nil }
TokRUnlock(t) ==
    /\ tpc[t] = "runlock"
    /\ rwReaders' = rwReaders \ {t}
    /\ IF ttok[t].ok
       THEN /\ tret' = [tret EXCEPT ![t] = [tok |-> ttok[t].tok, err |-> FALSE]]
            /\ tpc' = [tpc EXCEPT ![t] = "done"]
       ELSE /\ tret' = tret
            /\ tpc' = [tpc EXCEPT ![t] = "lock"]
    /\ UNCHANGED <<tokenizerCache, rwWriter, tbase, ttok, created>>
    /\ TokFrame

\* lines 29-30: tokenizerCacheMu.Lock(); defer Unlock()
TokLock(t) ==
    /\ tpc[t] = "lock"
    /\ rwWriter = 0
    /\ rwReaders = {}
    /\ rwWriter' = t
    /\ tpc' = [tpc EXCEPT ![t] = "recheck"]
    /\ UNCHANGED <<tokenizerCache, rwReaders, tbase, ttok, tret, created>>
    /\ TokFrame

\* the re-check left out: construction follows the write lock directly
TokRecheckSkipped(t) ==
    /\ tpc[t] = "recheck"
    /\ tpc' = [tpc EXCEPT ![t] = "construct"]
    /\ UNCHANGED <<tokenizerCache, rwReaders, rwWriter, tbase, ttok, tret, created>>
    /\ TokFrame

\* lines 33-35: double-check after acquiring the write lock
TokRecheck(t) ==
    /\ tpc[t] = "recheck"
    /\ IF tokenizerCache[tbase[t]] # Nil
       THEN /\ tret' = [tret EXCEPT ![t] = [tok |-> tokenizerCache[tbase[t]], err |-> FALSE]]
            /\ rwWriter' = 0
            /\ tpc' = [tpc EXCEPT ![t] = "done"]
       ELSE /\ tret' = tret
            /\ rwWriter' = rwWriter
            /\ tpc' = [tpc EXCEPT ![t] = "construct"]
    /\ UNCHANGED <<tokenizerCache, rwReaders, tbase, ttok, created>>
    /\ TokFrame

\* lines 37-40: tok, err := tokenizer.NewLocalTokenizer(baseModel)
TokConstruct(t) ==
    /\ tpc[t] = "construct"
    /\ \E fails \in BOOLEAN :
        IF fails
        THEN /\ tret' = [tret EXCEPT ![t] = [tok |-> Nil, err |-> TRUE]]
             /\ rwWriter' = 0
             /\ tpc' = [tpc EXCEPT ![t] = "done"]
             /\ UNCHANGED <<ttok, created>>
        ELSE LET inst == [id |-> Cardinality(created) + 1, key |-> tbase[t]] IN
             /\ created' = created \cup {inst}
             /\ ttok' = [ttok EXCEPT ![t] = [tok |-> inst, ok |-> ttok[t].ok]]
             /\ tpc' = [tpc EXCEPT ![t] = "insert"]
             /\ UNCHANGED <<tret, rwWriter>>
    /\ UNCHANGED <<tokenizerCache, rwReaders, tbase>>
    /\ TokFrame

\* lines 41-42: tokenizerCache[baseModel] = tok; return tok, nil (deferred Unlock)
TokInsert(t) ==
    /\ tpc[t] = "insert"
    /\ tokenizerCache' = [tokenizerCache EXCEPT ![tbase[t]] = ttok[t].tok]
    /\ tret' = [tret EXCEPT ![t] = [tok |-> ttok[t].tok, err |-> FALSE]]
    /\ rwWriter' = 0
    /\ tpc' = [tpc EXCEPT ![t] = "done"]
    /\ UNCHANGED <<rwReaders, tbase, ttok, created>>
    /\ TokFrame

\* getOrCreateTokenizer(model), one step of one calling thread
getOrCreateTokenizer(t) ==
    \/ \E model \in TokModels : TokCall(t, model)
    \/ TokRLock(t)
    \/ TokRead(t)
    \/ TokRUnlock(t)
    \/ TokLock(t)
    \/ TokRecheck(t)
    \/ TokConstruct(t)
    \/ TokInsert(t)

InstancesOf(k) == {i \in created : i.key = k}
AllReturned == \A t \in Threads : tpc[t] = "done"


TokenizerInit == TokInit /\ GemIdle /\ ResIdle /\ TrIdle /\ LogIdle
TokenizerNext == \E t \in Threads : getOrCreateTokenizer(t)
SpecTokenizer == TokenizerInit /\ [][TokenizerNext]_vars


Returned(t) == tpc[t] = "done"

\* C1 (as stated): once all N concurrent first-use calls have returned, exactly
\* one tokenizer instance has been constructed for each requested key and
\* every call has returned that instance.
C1_ExactlyOneAlways ==
    AllReturned =>
        \A t \in Threads :
            /\ Cardinality(InstancesOf(tbase[t])) = 1
            /\ tret[t].tok \in InstancesOf(tbase[t])

\* C1 (amended): at most one tokenizer instance is ever constructed per
\* normalized key; a call that returns without error returns the cached
\* instance of its key; a call returns an error only with a nil tokenizer
\* (its own NewLocalTokenizer failed); and when every call has returned
\* without error, exactly one instance exists for each requested key.
C1_AtMostOnePerKey ==
    /\ \A k \in TokKeys : Cardinality(InstancesOf(k)) <= 1
    /\ \A k \in TokKeys : tokenizerCache[k] # Nil => tokenizerCache[k] \in InstancesOf(k)
    /\ \A t \in Threads :
        Returned(t) =>
            IF tret[t].err
            THEN tret[t].tok = Nil
            ELSE /\ tret[t].tok \in InstancesOf(tbase[t])
                 /\ tret[t].tok = tokenizerCache[tbase[t]]
    /\ (AllReturned /\ \A t \in Threads : ~tret[t].err) =>
        \A t \in Threads : Cardinality(InstancesOf(tbase[t])) = 1

\* C1 witness: two calls for the same key both missed the optimistic read,
\* and both returned the one instance that was constructed.
C1_Witness ==
    \E t1, t2 \in Threads :
        /\ t1 # t2
        /\ Returned(t1) /\ Returned(t2)
        /\ tbase[t1] = tbase[t2]
        /\ ~ttok[t1].ok /\ ~ttok[t2].ok
        /\ ~tret[t1].err /\ ~tret[t2].err
        /\ tret[t1].tok = tret[t2].tok
        /\ InstancesOf(tbase[t1]) = {tret[t1].tok}


(***************************************************************************)
(* Gemini payload reader: extractContentsFromPayload, parseContent and     *)
(* CountTokensFromGeminiRequest.  A JSON value is a tagged record; a gjson *)
(* lookup of a missing path yields JAbsent.                                *)
(***************************************************************************)
JAbsent == [t |-> "absent"]
JNull == [t |-> "null"]
JStr(x) == [t |-> "str", v |-> x]
JArr(xs) == [t |-> "arr", v |-> xs]
JObj(f) == [t |-> "obj", v |-> f]

\* gjson: one path component
Get(j, key) == IF j.t = "obj" /\ key \in DOMAIN j.v THEN j.v[key] ELSE JAbsent
\* gjson.GetBytes(json, "a.b")
RECURSIVE GetPath(_, _)
GetPath(j, path) ==
    IF path = <<>> THEN j ELSE GetPath(Get(j, Head(path)), Tail(path))
\* gjson.Result.Exists / IsArray / String
Exists(r) == r.t # "absent"
IsArray(r) == r.t = "arr"
String(r) == IF r.t = "str" THEN r.v ELSE ""

\* parseContent(value, role); Nil is the nil *genai.Content
parseContent(value, role) ==
    LET parts == Get(value, "parts") IN
    IF ~IsArray(parts) THEN Nil
    ELSE LET withText == SelectSeq(parts.v, LAMBDA part : Exists(Get(part, "text")))
             genaiParts == [i \in 1..Len(withText) |-> String(Get(withText[i], "text"))]
         IN IF Len(genaiParts) = 0 THEN Nil
            ELSE [Role |-> role, Parts |-> genaiParts]

\* the contentsArr.ForEach loop of extractContentsFromPayload
RECURSIVE ForEachContent(_)
ForEachContent(values) ==
    IF values = <<>> THEN <<>>
    ELSE LET value == Head(values)
             role == IF String(Get(value, "role")) = "" THEN "user"
                     ELSE String(Get(value, "role"))
             content == parseContent(value, role)
         IN (IF content # Nil THEN <<content>> ELSE <<>>) \o ForEachContent(Tail(values))

\* extractContentsFromPayload with the paths given
ExtractAt(pl, contentsPath, systemPath) ==
    LET systemInstruction == GetPath(pl, systemPath)
        contents == IF Exists(systemInstruction)
                       /\ parseContent(systemInstruction, "user") # Nil
                    THEN <<parseContent(systemInstruction, "user")>>
                    ELSE <<>>
        contentsArr == GetPath(pl, contentsPath)
    IN IF ~IsArray(contentsArr) THEN contents
       ELSE contents \o ForEachContent(contentsArr.v)

\* the system path left at the root when the contents are nested
extractContentsRootSystemPath(pl) ==
    IF Exists(GetPath(pl, <<"request", "contents">>))
    THEN ExtractAt(pl, <<"request", "contents">>, <<"systemInstruction">>)
    ELSE ExtractAt(pl, <<"contents">>, <<"systemInstruction">>)

\* extractContentsFromPayload(payload)
extractContentsFromPayload(pl) ==
    IF Exists(GetPath(pl, <<"request", "contents">>))
    THEN ExtractAt(pl, <<"request", "contents">>, <<"request", "systemInstruction">>)
    ELSE ExtractAt(pl, <<"contents">>, <<"systemInstruction">>)

\* tok.CountTokens(contents, nil).TotalTokens of a working tokenizer: a fixed
\* number of tokens per text
Texts == {"hi", "be brief"}
TextTokens(text) == IF text = "hi" THEN 1 ELSE IF text = "be brief" THEN 2 ELSE 0
RECURSIVE SumTokens(_)
SumTokens(texts) ==
    IF texts = <<>> THEN 0 ELSE TextTokens(Head(texts)) + SumTokens(Tail(texts))
RECURSIVE TotalTokens(_)
TotalTokens(contents) ==
    IF contents = <<>> THEN 0
    ELSE SumTokens(Head(contents).Parts) + TotalTokens(Tail(contents))

\* CountTokensFromGeminiRequest(model, payload) once the tokenizer is at hand
CountTokensFromGeminiRequest(pl) ==
    LET contents == extractContentsFromPayload(pl) IN
    [contents |-> contents,
     count |-> IF Len(contents) = 0 THEN 0 ELSE TotalTokens(contents)]

\* ---- the payloads ----
MaxContents == 2
TextPart(x) == JObj([k \in {"text"} |-> JStr(x)])
InlinePart == JObj([k \in {"inline_data"} |-> JObj(<<>>)])
PartsValues ==
    {JAbsent, JStr("x"), JArr(<<>>), JArr(<<InlinePart>>),
     JArr(<<TextPart("hi")>>), JArr(<<TextPart("hi"), InlinePart>>)}
RoleValues == {JAbsent, JStr(""), JStr("model")}
\* a JSON object of the fields that are present
Fields(pairs) ==
    LET present == {pr \in pairs : Exists(pr[2])} IN
    JObj([k \in {pr[1] : pr \in present} |-> (CHOOSE pr \in present : pr[1] = k)[2]])
ContentObjects ==
    {Fields({<<"role", r>>, <<"parts", ps>>}) : r \in RoleValues, ps \in PartsValues}
SystemInstructions ==
    {JAbsent} \cup {Fields({<<"parts", ps>>}) :
                        ps \in {JArr(<<>>), JArr(<<TextPart("be brief")>>), JStr("x")}}
ContentsValues ==
    {JAbsent, JNull}
        \cup {JArr(xs) : xs \in UNION {[1..n -> ContentObjects] : n \in 0..MaxContents}}
NativePayloads ==
    {Fields({<<"contents", c>>, <<"systemInstruction", si>>}) :
        c \in ContentsValues, si \in SystemInstructions}
\* {"request": P}
Wrap(pl) == JObj([k \in {"request"} |-> pl])

GemInit ==
    /\ payload \in NativePayloads
    /\ nativeOut = Nil
    /\ wrappedOut = Nil

CountNative ==
    /\ nativeOut = Nil
    /\ nativeOut' = CountTokensFromGeminiRequest(payload)
    /\ UNCHANGED <<payload, wrappedOut>>
    /\ GemFrame

CountWrapped ==
    /\ wrappedOut = Nil
    /\ wrappedOut' = CountTokensFromGeminiRequest(Wrap(payload))
    /\ UNCHANGED <<payload, nativeOut>>
    /\ GemFrame

GeminiInit == GemInit /\ TokIdle /\ ResIdle /\ TrIdle /\ LogIdle
GeminiNext == CountNative \/ CountWrapped
SpecGemini == GeminiInit /\ [][GeminiNext]_vars

BothCounted == nativeOut # Nil /\ wrappedOut # Nil

\* C4 (as stated): for every native payload, the wrapped form yields the same
\* content list and the same token count as the native form.
C4_WrapSameAlways ==
    BothCounted => wrappedOut = nativeOut

\* C4 (amended): for every native payload that has a root contents field, the
\* wrapped form yields the same content list and token count as the native
\* form; for a payload without contents the wrapped form is not detected and
\* yields the empty list and count 0.
C4_WrapSameWithContents ==
    BothCounted =>
        IF Exists(Get(payload, "contents"))
        THEN wrappedOut = nativeOut
        ELSE wrappedOut = [contents |-> <<>>, count |-> 0]

\* C4 witness: a payload with a system instruction and contents, counted in
\* both forms, with a system entry and a content entry extracted.
C4_Witness ==
    /\ BothCounted
    /\ Exists(Get(payload, "contents"))
    /\ Exists(Get(payload, "systemInstruction"))
    /\ Len(wrappedOut.contents) >= 2
    /\ wrappedOut.count >= 3


(***************************************************************************)
(* Suffix parser and thinking budget resolver (package util).              *)
(***************************************************************************)
ThinkingLevelLow == "low"
ThinkingLevelMedium == "medium"
ThinkingLevelHigh == "high"
ThinkingLevelMax == "max"
Unset == ""
Levels == {ThinkingLevelLow, ThinkingLevelMedium, ThinkingLevelHigh, ThinkingLevelMax}

s_thinking == <<"-", "t", "h", "i", "n", "k", "i", "n", "g">>
s_thinking_max == s_thinking \o <<"-", "m", "a", "x">>
s_thinking_high == s_thinking \o <<"-", "h", "i", "g", "h">>
s_thinking_medium == s_thinking \o <<"-", "m", "e", "d", "i", "u", "m">>
s_thinking_low == s_thinking \o <<"-", "l", "o", "w">>

\* ParseThinkingSuffix with the bare suffix tested first
ParseThinkingSuffixBareFirst(name) ==
    IF containsAny(name, {s_thinking}) THEN [level |-> ThinkingLevelMax, isThinking |-> TRUE]
    ELSE [level |-> Unset, isThinking |-> FALSE]

\* ParseThinkingSuffix(modelName) -> (level, is_thinking_model)
ParseThinkingSuffix(name) ==
    IF HasSuffix(name, s_thinking_max) THEN [level |-> ThinkingLevelMax, isThinking |-> TRUE]
    ELSE IF HasSuffix(name, s_thinking_high) THEN [level |-> ThinkingLevelHigh, isThinking |-> TRUE]
    ELSE IF HasSuffix(name, s_thinking_medium) THEN [level |-> ThinkingLevelMedium, isThinking |-> TRUE]
    ELSE IF HasSuffix(name, s_thinking_low) THEN [level |-> ThinkingLevelLow, isThinking |-> TRUE]
    ELSE IF HasSuffix(name, s_thinking) THEN [level |-> ThinkingLevelMax, isThinking |-> TRUE]
    ELSE [level |-> Unset, isThinking |-> FALSE]

\* registry.GetGlobalRegistry().GetModelInfo(model); Nil is the nil *ModelInfo
GetModelInfo(model) == IF model \in DOMAIN registry THEN registry[model] ELSE Nil

\* registry.ThinkingBudgets{} and DefaultThinkingBudgets
ZeroBudgets == [Low |-> 0, Medium |-> 0, High |-> 0, Max |-> 0]
DefaultThinkingBudgets == [Low |-> 1024, Medium |-> 8192, High |-> 24576, Max |-> 32768]

\* the switch on a level over a budgets table; other is the default arm
LevelBudget(budgets, level, other) ==
    IF level = ThinkingLevelLow THEN budgets.Low
    ELSE IF level = ThinkingLevelMedium THEN budgets.Medium
    ELSE IF level = ThinkingLevelHigh THEN budgets.High
    ELSE IF level = ThinkingLevelMax THEN budgets.Max
    ELSE other

\* lines 163-171: Min/Max clamping and the return
ClampAndReturn(ts, budget) ==
    LET b1 == IF budget < ts.Min /\ ts.Min > 0 THEN ts.Min ELSE budget
        b2 == IF b1 > ts.Max /\ ts.Max > 0 THEN ts.Max ELSE b1
    IN [budget |-> b2, ok |-> b2 > 0]

\* GetThinkingBudget with the suffix level consulted before the user budget
GetThinkingBudgetSuffixFirst(model, level, user) ==
    LET info == GetModelInfo(model) IN
    IF info = Nil \/ info.Thinking = Nil THEN [budget |-> 0, ok |-> FALSE]
    ELSE LET ts == info.Thinking
             budgets == IF ts.Budgets = ZeroBudgets THEN DefaultThinkingBudgets ELSE ts.Budgets
         IN ClampAndReturn(ts, IF level # Unset THEN LevelBudget(budgets, level, 0)
                               ELSE IF user > 0 THEN user
                               ELSE ts.Min)

\* GetThinkingBudget(model, suffixLevel, userBudget) -> (budget, ok)
GetThinkingBudget(model, level, user) ==
    LET info == GetModelInfo(model) IN
    IF info = Nil \/ info.Thinking = Nil THEN [budget |-> 0, ok |-> FALSE]
    ELSE LET ts == info.Thinking
             budgets == IF ts.Budgets = ZeroBudgets THEN DefaultThinkingBudgets ELSE ts.Budgets
         IN ClampAndReturn(ts, IF user > 0 THEN user
                               ELSE IF level # Unset THEN LevelBudget(budgets, level, 0)
                               ELSE IF ts.DefaultLevel # Unset
                                    THEN LevelBudget(budgets, ts.DefaultLevel, ts.Min)
                                    ELSE ts.Min)

\* ParseClaudeThinkingFromModel(modelName) -> *ThinkingConfig (Nil is nil)
ParseClaudeThinkingFromModel(name) ==
    LET p == ParseThinkingSuffix(name) IN
    IF ~p.isThinking THEN Nil
    ELSE LET r == GetThinkingBudget(name, p.level, 0) IN
         IF r.budget <= 0 THEN Nil
         ELSE [Enabled |-> TRUE, BudgetTokens |-> r.budget]


\* ---- registry records ----
CustomBudgets == [Low |-> 512, Medium |-> 4096, High |-> 16384, Max |-> 65536]
\* thinking sub-records; min <= max when both are nonzero
ThinkingSupports ==
    {ts \in [Min : {0, 1024, 4096}, Max : {0, 2048, 32768},
             DefaultLevel : {Unset, ThinkingLevelLow, ThinkingLevelHigh},
             Budgets : {ZeroBudgets, CustomBudgets}] :
        (ts.Min > 0 /\ ts.Max > 0) => ts.Min <= ts.Max}
ModelInfos ==
    [MaxCompletionTokens : {0, 8192, 64000}, Thinking : {Nil} \cup ThinkingSupports]
\* a registry with no record, or with one record under the given name
RegistriesFor(names, infos) ==
    {<<>>} \cup {[n \in {name} |-> info] : name \in names, info \in infos}

\* ---- the suffix parser on its own ----
MaxBaseLen == 2
BaseStems == UNION {[1..n -> {"a", "g"}] : n \in 0..MaxBaseLen}
Bases == BaseStems \cup {b \o s_thinking : b \in BaseStems}
              \cup {b \o s_thinking_low : b \in BaseStems}
Tails ==
    {<<>>, s_thinking, s_thinking_low, s_thinking_medium, s_thinking_high, s_thinking_max,
     <<"-", "T", "h", "i", "n", "k", "i", "n", "g">>,
     <<"t", "h", "i", "n", "k", "i", "n", "g">>,
     s_thinking \o <<"-">>,
     s_thinking \o <<"-", "l", "o">>,
     s_thinking_max \o <<"x">>}
SuffixNames == {b \o tl : b \in Bases, tl \in Tails}
SuffixInfos ==
    {i \in ModelInfos : i.MaxCompletionTokens = 0 /\ i.Thinking # Nil
                        /\ i.Thinking.Min = 1024 /\ i.Thinking.Max = 32768
                        /\ i.Thinking.DefaultLevel = Unset}

SuffixInit ==
    /\ modelName \in SuffixNames
    /\ registry \in RegistriesFor({modelName}, SuffixInfos)
    /\ suffixLevel = Unset
    /\ userBudget = 0
    /\ parsed = Nil
    /\ lookupName = NoName
    /\ resolved = Nil

\* line 195: suffixLevel, isThinking := util.ParseThinkingSuffix(modelName)
DoParseThinkingSuffix ==
    /\ parsed = Nil
    /\ parsed' = ParseThinkingSuffix(modelName)
    /\ suffixLevel' = ParseThinkingSuffix(modelName).level
    /\ UNCHANGED <<modelName, registry, userBudget, lookupName, resolved>>
    /\ ResFrame

\* line 200: budget, _ := util.GetThinkingBudget(modelName, suffixLevel, 0):
\* the name looked up in the registry is the model name as it came in
DoResolveParsed ==
    /\ parsed # Nil
    /\ parsed.isThinking
    /\ resolved = Nil
    /\ lookupName' = modelName
    /\ resolved' = GetThinkingBudget(modelName, suffixLevel, 0)
    /\ UNCHANGED <<modelName, registry, suffixLevel, userBudget, parsed>>
    /\ ResFrame

SuffixSpecInit == SuffixInit /\ TokIdle /\ GemIdle /\ TrIdle /\ LogIdle
SuffixNext == DoParseThinkingSuffix \/ DoResolveParsed
SpecSuffix == SuffixSpecInit /\ [][SuffixNext]_vars

SuffixOf(level) ==
    IF level = ThinkingLevelLow THEN s_thinking_low
    ELSE IF level = ThinkingLevelMedium THEN s_thinking_medium
    ELSE IF level = ThinkingLevelHigh THEN s_thinking_high
    ELSE s_thinking_max
EndsInASuffix(name) ==
    \E sfx \in {s_thinking, s_thinking_low, s_thinking_medium,
                s_thinking_high, s_thinking_max} : HasSuffix(name, sfx)

\* C6 (as stated): the parser yields a base name with the matched suffix
\* stripped: after base + "-thinking-" + L or base + "-thinking" is parsed, the
\* name the resolver goes on with is base.
C6_StripsSuffix ==
    lookupName # NoName =>
        \A base \in Bases :
            /\ \A L \in Levels : modelName = base \o SuffixOf(L) => lookupName = base
            /\ modelName = base \o s_thinking => lookupName = base

\* C6 (amended): ParseThinkingSuffix maps every model name to
\* (level, is_thinking) by the first matching rule: base + "-thinking-" + L
\* yields (L, true), base + "-thinking" yields (max, true), a name ending in
\* none of the five suffixes yields (unset, false); no base name is produced
\* and nothing is stripped: the resolver is called with the full model name.
C6_LevelOfSuffix ==
    /\ parsed # Nil =>
        /\ \A base \in Bases :
            /\ \A L \in Levels :
                modelName = base \o SuffixOf(L) => parsed = [level |-> L, isThinking |-> TRUE]
            /\ modelName = base \o s_thinking =>
                parsed = [level |-> ThinkingLevelMax, isThinking |-> TRUE]
        /\ ~EndsInASuffix(modelName) => parsed = [level |-> Unset, isThinking |-> FALSE]
    /\ lookupName # NoName => lookupName = modelName

\* C6 witness: a name whose base itself ends in -thinking-low, followed by
\* -thinking-high, has been parsed as (high, true) and handed to the resolver.
C6_Witness ==
    /\ lookupName # NoName
    /\ \E b \in BaseStems : modelName = (b \o s_thinking_low) \o s_thinking_high /\ Len(b) > 0
    /\ parsed = [level |-> ThinkingLevelHigh, isThinking |-> TRUE]
    /\ lookupName = modelName
    /\ resolved # Nil

\* ---- the resolver on its own ----
m_claude_thinking_low == m_claude \o s_thinking_low
BudgetNames == {m_claude, m_claude_thinking_low}
UserBudgets == {-1, 0, 500, 1500, 3000, 50000}

BudgetInit ==
    /\ modelName \in BudgetNames
    /\ registry \in RegistriesFor(BudgetNames, {i \in ModelInfos : i.MaxCompletionTokens = 0})
    /\ suffixLevel \in {Unset} \cup Levels
    /\ userBudget \in UserBudgets
    /\ parsed = Nil
    /\ lookupName = NoName
    /\ resolved = Nil

\* a call of util.GetThinkingBudget(model, suffixLevel, userBudget)
DoGetThinkingBudget ==
    /\ resolved = Nil
    /\ resolved' = GetThinkingBudget(modelName, suffixLevel, userBudget)
    /\ lookupName' = modelName
    /\ UNCHANGED <<modelName, registry, suffixLevel, userBudget, parsed>>
    /\ ResFrame

BudgetSpecInit == BudgetInit /\ TokIdle /\ GemIdle /\ TrIdle /\ LogIdle
BudgetNext == DoGetThinkingBudget
SpecBudget == BudgetSpecInit /\ [][BudgetNext]_vars

HasThinking(model) == GetModelInfo(model) # Nil /\ GetModelInfo(model).Thinking # Nil

\* C5: for a model with a thinking sub-record and user_budget > 0 the result
\* is user_budget raised to min (min > 0, user_budget < min), lowered to max
\* (max > 0, user_budget > max), else verbatim, whatever suffix_level, the
\* budgets table and default_level are; is_thinking is budget > 0.
C5_UserBudgetClamped ==
    (resolved # Nil /\ HasThinking(modelName) /\ userBudget > 0) =>
        LET ts == GetModelInfo(modelName).Thinking
            expected == IF ts.Min > 0 /\ userBudget < ts.Min THEN ts.Min
                        ELSE IF ts.Max > 0 /\ userBudget > ts.Max THEN ts.Max
                        ELSE userBudget
        IN resolved = [budget |-> expected, ok |-> expected > 0]

\* C5 witness: a suffix level and a budgets table are present, and the user
\* budget 50000 has been lowered to max = 32768.
C5_Witness ==
    /\ resolved # Nil
    /\ HasThinking(modelName)
    /\ suffixLevel = ThinkingLevelLow
    /\ GetModelInfo(modelName).Thinking.Budgets = CustomBudgets
    /\ GetModelInfo(modelName).Thinking.DefaultLevel = ThinkingLevelHigh
    /\ GetModelInfo(modelName).Thinking.Max = 32768
    /\ userBudget = 50000
    /\ resolved.budget = 32768


(***************************************************************************)
(* Request translator (package providers): ThinkingConfig.ApplyToClaude,   *)
(* EnsureClaudeMaxTokens on a Claude JSON body, ApplyThinkingToIR on the   *)
(* unified request.                                                        *)
(***************************************************************************)
JNum(n) == [t |-> "num", v |-> n]
\* gjson.Result.IntOf(): 0 for a missing value
IntOf(r) == IF r.t = "num" THEN r.v ELSE 0

\* sjson.SetBytes(json, "a.b", value): intermediate objects are created
RECURSIVE SetPath(_, _, _)
SetPath(j, path, val) ==
    LET f == IF j.t = "obj" THEN j.v ELSE <<>>
        key == Head(path)
        new == IF Len(path) = 1 THEN val ELSE SetPath(Get(j, key), Tail(path), val)
    IN JObj([k \in DOMAIN f \cup {key} |-> IF k = key THEN new ELSE f[k]])

\* (t *ThinkingConfig) ApplyToClaude(body)
ApplyToClaude(t, b) ==
    IF t = Nil \/ ~t.Enabled THEN b
    ELSE IF Exists(Get(b, "thinking")) THEN b
    ELSE SetPath(SetPath(b, <<"thinking", "type">>, JStr("enabled")),
                 <<"thinking", "budget_tokens">>, JNum(t.BudgetTokens))

fallbackBuffer == 4000

\* EnsureClaudeMaxTokens with the steps after the two early returns given
EnsureWith(model, b, required) ==
    IF String(GetPath(b, <<"thinking", "type">>)) # "enabled" THEN b
    ELSE IF IntOf(GetPath(b, <<"thinking", "budget_tokens">>)) <= 0 THEN b
    ELSE IF IntOf(Get(b, "max_tokens")) < required
         THEN SetPath(b, <<"max_tokens">>, JNum(required))
         ELSE b

\* lines 241-244: maxCompletionTokens of the model, 0 when not registered
MaxCompletionTokensOf(model) ==
    IF GetModelInfo(model) # Nil THEN GetModelInfo(model).MaxCompletionTokens ELSE 0

\* EnsureClaudeMaxTokens without the response buffer
EnsureClaudeMaxTokensNoBuffer(model, b) ==
    EnsureWith(model, b,
               IF MaxCompletionTokensOf(model) > 0 THEN MaxCompletionTokensOf(model)
               ELSE IntOf(GetPath(b, <<"thinking", "budget_tokens">>)))

\* EnsureClaudeMaxTokens with the requirement taken from max_tokens itself
EnsureClaudeMaxTokensFromMaxTokens(model, b) ==
    EnsureWith(model, b,
               IF MaxCompletionTokensOf(model) > 0 THEN MaxCompletionTokensOf(model)
               ELSE IntOf(Get(b, "max_tokens")) + fallbackBuffer)

\* EnsureClaudeMaxTokens(modelName, body)
EnsureClaudeMaxTokens(model, b) ==
    EnsureWith(model, b,
               IF MaxCompletionTokensOf(model) > 0 THEN MaxCompletionTokensOf(model)
               ELSE IntOf(GetPath(b, <<"thinking", "budget_tokens">>)) + fallbackBuffer)

\* a non-nil pointer to n
Ptr(n) == [t |-> "ptr", v |-> n]

\* lines 263-283 of ApplyThinkingToIR, after the include_thoughts guard.
\* int32(cfg.BudgetTokens) keeps the value: registry budgets fit in 31 bits.
ApplyThinkingFromSuffix(model, r) ==
    LET c == ParseClaudeThinkingFromModel(model) IN
    IF c = Nil THEN r
    ELSE LET minMaxTokens == IF MaxCompletionTokensOf(model) > 0
                             THEN MaxCompletionTokensOf(model)
                             ELSE c.BudgetTokens + 4000
         IN [Thinking |-> [IncludeThoughts |-> TRUE, ThinkingBudget |-> Ptr(c.BudgetTokens)],
             MaxTokens |-> IF r.MaxTokens = Nil \/ r.MaxTokens.v < minMaxTokens
                           THEN Ptr(minMaxTokens) ELSE r.MaxTokens]

\* ApplyThinkingToIR without the user-override guard
ApplyThinkingToIRNoGuard(model, r) == ApplyThinkingFromSuffix(model, r)

\* ApplyThinkingToIR(model, req)
ApplyThinkingToIR(model, r) ==
    IF r.Thinking # Nil /\ r.Thinking.IncludeThoughts THEN r
    ELSE ApplyThinkingFromSuffix(model, r)

\* ---- inputs ----
MaxOps == 2
m_claude_thinking == m_claude \o s_thinking
TrNames == {m_claude, m_claude_thinking, m_claude_thinking_low}
TrInfos ==
    {i \in ModelInfos :
        \/ i.Thinking = Nil
        \/ /\ i.Thinking.Min = 1024 /\ i.Thinking.Max = 32768
           /\ i.Thinking.DefaultLevel = Unset /\ i.Thinking.Budgets = ZeroBudgets
        \/ /\ i.Thinking.Min = 0 /\ i.Thinking.Max = 0
           /\ i.Thinking.DefaultLevel = ThinkingLevelHigh /\ i.Thinking.Budgets = CustomBudgets}
ThinkingValues ==
    {JAbsent, JNull,
     Fields({<<"type", JStr("enabled")>>, <<"budget_tokens", JNum(20000)>>}),
     Fields({<<"type", JStr("enabled")>>, <<"budget_tokens", JNum(0)>>}),
     Fields({<<"type", JStr("enabled")>>}),
     Fields({<<"type", JStr("disabled")>>, <<"budget_tokens", JNum(20000)>>})}
MaxTokensValues == {JAbsent, JNum(1000), JNum(24000), JNum(70000)}
Bodies ==
    {Fields({<<"model", JStr("m")>>, <<"max_tokens", mt>>, <<"thinking", th>>}) :
        mt \in MaxTokensValues, th \in ThinkingValues}
ThinkingConfigs ==
    {Nil, [Enabled |-> FALSE, BudgetTokens |-> 1024], [Enabled |-> TRUE, BudgetTokens |-> 1024]}
Requests ==
    [Thinking : {Nil, [IncludeThoughts |-> FALSE, ThinkingBudget |-> Nil],
                 [IncludeThoughts |-> TRUE, ThinkingBudget |-> Nil],
                 [IncludeThoughts |-> TRUE, ThinkingBudget |-> Ptr(5000)]},
     MaxTokens : {Nil, Ptr(70000)}]

TrInit ==
    /\ modelName \in TrNames
    /\ registry \in RegistriesFor({modelName}, TrInfos)
    /\ suffixLevel = Nil /\ userBudget = Nil /\ parsed = Nil
    /\ lookupName = NoName /\ resolved = Nil
    /\ cfg \in ThinkingConfigs \cup {ParseClaudeThinkingFromModel(modelName)}
    /\ body \in Bodies
    /\ req \in Requests
    /\ origBody = body /\ origReq = req
    /\ prevBody = body /\ prevReq = req
    /\ lastOp = ""
    /\ rep = FALSE
    /\ nOps = 0

\* the bookkeeping of one more operation op
Applied(op) ==
    /\ nOps < MaxOps
    /\ prevBody' = body
    /\ prevReq' = req
    /\ lastOp' = op
    /\ rep' = (lastOp = op)
    /\ nOps' = nOps + 1
    /\ UNCHANGED <<cfg, origBody, origReq>>
    /\ TrFrame

DoApplyToClaude ==
    /\ Applied("ApplyToClaude")
    /\ body' = ApplyToClaude(cfg, body)
    /\ req' = req

DoEnsureClaudeMaxTokens ==
    /\ Applied("EnsureClaudeMaxTokens")
    /\ body' = EnsureClaudeMaxTokens(modelName, body)
    /\ req' = req

DoApplyThinkingToIR ==
    /\ Applied("ApplyThinkingToIR")
    /\ req' = ApplyThinkingToIR(modelName, req)
    /\ body' = body

TranslatorInit == TrInit /\ TokIdle /\ GemIdle /\ LogIdle
TranslatorNext == DoApplyToClaude \/ DoEnsureClaudeMaxTokens \/ DoApplyThinkingToIR
SpecTranslator == TranslatorInit /\ [][TranslatorNext]_vars


\* the last operation was EnsureClaudeMaxTokens on a body with thinking
\* enabled and a positive budget
EnsuredThinking ==
    /\ lastOp = "EnsureClaudeMaxTokens"
    /\ String(GetPath(prevBody, <<"thinking", "type">>)) = "enabled"
    /\ IntOf(GetPath(prevBody, <<"thinking", "budget_tokens">>)) > 0
BudgetOf(b) == IntOf(GetPath(b, <<"thinking", "budget_tokens">>))
MaxTokensOf(b) == IntOf(Get(b, "max_tokens"))

\* C2 (as stated): after EnsureClaudeMaxTokens with thinking enabled and
\* B > 0, max_tokens >= B + 4000 when max_completion_tokens is unknown, and
\* max_tokens = max_completion_tokens otherwise.
C2_EqualsMaxCompletion ==
    EnsuredThinking =>
        IF MaxCompletionTokensOf(modelName) = 0
        THEN MaxTokensOf(body) >= BudgetOf(prevBody) + 4000
        ELSE MaxTokensOf(body) = MaxCompletionTokensOf(modelName)

\* C2 (amended): after EnsureClaudeMaxTokens with thinking enabled and B > 0,
\* max_tokens >= B + 4000 when max_completion_tokens is unknown; otherwise
\* max_tokens is the larger of the initial max_tokens and
\* max_completion_tokens, so it is at least max_completion_tokens and equals
\* it when the initial max_tokens did not exceed it.
C2_AtLeastRequired ==
    EnsuredThinking =>
        IF MaxCompletionTokensOf(modelName) = 0
        THEN MaxTokensOf(body) >= BudgetOf(prevBody) + 4000
        ELSE /\ MaxTokensOf(body) >= MaxCompletionTokensOf(modelName)
             /\ MaxTokensOf(body) =
                    IF MaxTokensOf(prevBody) > MaxCompletionTokensOf(modelName)
                    THEN MaxTokensOf(prevBody) ELSE MaxCompletionTokensOf(modelName)

\* C2 witness: the body {max_tokens: 1000, budget_tokens: 20000} of a model
\* with unknown max_completion_tokens has been rewritten to max_tokens 24000.
C2_Witness ==
    /\ EnsuredThinking
    /\ MaxCompletionTokensOf(modelName) = 0
    /\ MaxTokensOf(prevBody) = 1000
    /\ BudgetOf(prevBody) = 20000
    /\ MaxTokensOf(body) = 24000

\* C3: after EnsureClaudeMaxTokens with thinking enabled and B > 0, for every
\* registry record, max_tokens >= B + 4000.
C3_RoomForAnswer ==
    EnsuredThinking => MaxTokensOf(body) >= BudgetOf(prevBody) + 4000

\* C7: each of ApplyToClaude, EnsureClaudeMaxTokens and ApplyThinkingToIR is
\* idempotent: applied a second time to its own result, with the same model,
\* registry and config, it changes neither the body nor the request.
C7_Idempotent ==
    rep => (body = prevBody /\ req = prevReq)

\* C7 witness: EnsureClaudeMaxTokens has been applied twice in a row and the
\* first application raised max_tokens.
C7_Witness ==
    /\ rep
    /\ nOps = 2
    /\ lastOp = "EnsureClaudeMaxTokens"
    /\ MaxTokensOf(body) > MaxTokensOf(origBody)

\* C10: if the request has thinking.include_thoughts set (true) before
\* ApplyThinkingToIR, then for every model name and registry the request is
\* the same after the call: thinking sub-record and max_tokens.
C10_UserOverrideKept ==
    (lastOp = "ApplyThinkingToIR" /\ prevReq.Thinking # Nil /\ prevReq.Thinking.IncludeThoughts)
        => req = prevReq

\* C10 witness: a request with include_thoughts and thinking_budget 5000 and
\* no max_tokens went through ApplyThinkingToIR for a -thinking model whose
\* suffix resolves to a budget, and came out as it was.
C10_Witness ==
    /\ lastOp = "ApplyThinkingToIR"
    /\ prevReq = [Thinking |-> [IncludeThoughts |-> TRUE, ThinkingBudget |-> Ptr(5000)],
                  MaxTokens |-> Nil]
    /\ ParseClaudeThinkingFromModel(modelName) # Nil
    /\ req = prevReq


(***************************************************************************)
(* Claude login: ClaudeAuthenticator.Login.  The steps are the points at   *)
(* which Login calls out or blocks; ctx may be cancelled between any two.  *)
(***************************************************************************)
MaxLineLen == 2
Whitespace == {" ", "\t"}
LineChars == Whitespace \cup {"x"}
Lines == UNION {[1..n -> LineChars] : n \in 0..MaxLineLen}
\* what scanner.Scan() can deliver: a line, end of input, a read error
StdinEvents ==
    {[kind |-> "line", text |-> l] : l \in Lines}
        \cup {[kind |-> "eof", text |-> <<>>], [kind |-> "error", text |-> <<>>]}
NoEvent == [kind |-> "none", text |-> <<>>]

\* the pasted text used as it is
TrimSpaceNone(str) == str

\* strings.TrimSpace(s)
RECURSIVE TrimSpace(_)
TrimSpace(str) ==
    IF str = <<>> THEN str
    ELSE IF Head(str) \in Whitespace THEN TrimSpace(Tail(str))
    ELSE IF str[Len(str)] \in Whitespace THEN TrimSpace(SubSeq(str, 1, Len(str) - 1))
    ELSE str

LogInit ==
    /\ lpc = "start"
    /\ lin \in [cfgNil : BOOLEAN, ctxNil : BOOLEAN]
    /\ cancelledAt = ""
    /\ stdinEv = NoEvent
    /\ code = <<>>
    /\ exchangeCalls = 0
    /\ lret = [auth |-> "", err |-> ""]

\* return nil, err
ReturnErr(e) ==
    /\ lret' = [auth |-> "", err |-> e]
    /\ lpc' = "returned"

\* lines 36-44: the argument checks
LoginEnter ==
    /\ lpc = "start"
    /\ IF lin.cfgNil THEN ReturnErr("configuration is required")
       ELSE lpc' = "pkce" /\ lret' = lret
    /\ UNCHANGED <<lin, cancelledAt, stdinEv, code, exchangeCalls>>
    /\ LogFrame

\* lines 46-49: claude.GeneratePKCECodes()
GeneratePKCECodes ==
    /\ lpc = "pkce"
    /\ \E failed \in BOOLEAN :
        IF failed THEN ReturnErr("claude pkce generation failed")
        ELSE lpc' = "state" /\ lret' = lret
    /\ UNCHANGED <<lin, cancelledAt, stdinEv, code, exchangeCalls>>
    /\ LogFrame

\* lines 51-54: misc.GenerateRandomState()
GenerateRandomState ==
    /\ lpc = "state"
    /\ \E failed \in BOOLEAN :
        IF failed THEN ReturnErr("claude state generation failed")
        ELSE lpc' = "url" /\ lret' = lret
    /\ UNCHANGED <<lin, cancelledAt, stdinEv, code, exchangeCalls>>
    /\ LogFrame

\* lines 56-62: authSvc.GenerateAuthURL(state, pkceCodes)
GenerateAuthURL ==
    /\ lpc = "url"
    /\ \E failed \in BOOLEAN :
        IF failed THEN ReturnErr("claude authorisation url generation failed")
        ELSE lpc' = "browser" /\ lret' = lret
    /\ UNCHANGED <<lin, cancelledAt, stdinEv, code, exchangeCalls>>
    /\ LogFrame

\* lines 64-74: the browser is opened when wanted and available (a failure is
\* only warned about), then the URL and the prompt are printed; none of it
\* changes what Login does next
OpenBrowserAndPrompt ==
    /\ lpc = "browser"
    /\ lpc' = "scan"
    /\ UNCHANGED <<lin, cancelledAt, stdinEv, code, exchangeCalls, lret>>
    /\ LogFrame

\* lines 76-90: scanner.Scan() returns with ev; the code is trimmed and
\* checked, and ExchangeCodeForTokens is called
ScanWith(ev, trimmed) ==
    /\ lpc = "scan"
    /\ stdinEv' = ev
    /\ IF ev.kind = "error" THEN
            ReturnErr("failed to read authorisation code") /\ UNCHANGED <<code, exchangeCalls>>
       ELSE IF ev.kind = "eof" THEN
            ReturnErr("no authorisation code provided") /\ UNCHANGED <<code, exchangeCalls>>
       ELSE /\ code' = trimmed
            /\ IF trimmed = <<>>
               THEN ReturnErr("empty authorisation code provided") /\ exchangeCalls' = exchangeCalls
               ELSE /\ exchangeCalls' = exchangeCalls + 1
                    /\ lpc' = "exchange"
                    /\ lret' = lret
    /\ UNCHANGED <<lin, cancelledAt>>
    /\ LogFrame

Scan == \E ev \in StdinEvents : ScanWith(ev, TrimSpace(ev.text))

\* authSvc.ExchangeCodeForTokens(ctx, ...) returns: with the context's error
\* once ctx is cancelled, else with tokens or with a failure of its own
ExchangeCodeForTokens ==
    /\ lpc = "exchange"
    /\ IF cancelledAt # ""
       THEN ReturnErr("exchange failed: context canceled")
       ELSE \E failed \in BOOLEAN :
                IF failed THEN ReturnErr("exchange failed")
                ELSE lpc' = "storage" /\ lret' = lret
    /\ UNCHANGED <<lin, cancelledAt, stdinEv, code, exchangeCalls>>
    /\ LogFrame

\* lines 95-116: CreateTokenStorage, the principal check, the Auth record
CreateTokenStorage ==
    /\ lpc = "storage"
    /\ \E email \in {"", "a@b"} :
        IF email = "" THEN ReturnErr("claude token storage missing account information")
        ELSE /\ lret' = [auth |-> "claude-a@b.json", err |-> ""]
             /\ lpc' = "returned"
    /\ UNCHANGED <<lin, cancelledAt, stdinEv, code, exchangeCalls>>
    /\ LogFrame

\* the caller cancels ctx while Login runs (a nil ctx is replaced by
\* context.Background(), which is never cancelled)
CancelCtx ==
    /\ lpc # "returned"
    /\ ~lin.ctxNil
    /\ cancelledAt = ""
    /\ cancelledAt' = lpc
    /\ UNCHANGED <<lpc, lin, stdinEv, code, exchangeCalls, lret>>
    /\ LogFrame

LoginInit == LogInit /\ TokIdle /\ GemIdle /\ ResIdle /\ TrIdle
LoginNext ==
    \/ LoginEnter
    \/ GeneratePKCECodes
    \/ GenerateRandomState
    \/ GenerateAuthURL
    \/ OpenBrowserAndPrompt
    \/ Scan
    \/ ExchangeCodeForTokens
    \/ CreateTokenStorage
    \/ CancelCtx
SpecLogin == LoginInit /\ [][LoginNext]_vars

CtxErrors == {"context canceled", "exchange failed: context canceled"}
AllWhitespace(str) == \A i \in 1..Len(str) : str[i] \in Whitespace

\* C8: when ctx is cancelled while Login waits at the prompt or while the
\* exchange is in flight, Login returns a context-cancelled error and no Auth.
C8_CancelAbandonsWait ==
    (lpc = "returned" /\ cancelledAt \in {"scan", "exchange"}) =>
        (lret.err \in CtxErrors /\ lret.auth = "")

\* C9: ExchangeCodeForTokens is invoked at most once and only after a line
\* with a non-blank character was read; on a blank line, a scanner error or
\* closed stdin Login returns an error and no Auth, with no exchange.
C9_ExchangeOnlyWithCode ==
    /\ exchangeCalls <= 1
    /\ exchangeCalls = 1 => (stdinEv.kind = "line" /\ ~AllWhitespace(stdinEv.text))
    /\ lpc \in {"exchange", "storage"} => exchangeCalls = 1
    /\ (lpc = "returned" /\ stdinEv # NoEvent
            /\ (stdinEv.kind \in {"eof", "error"} \/ AllWhitespace(stdinEv.text))) =>
        (lret.auth = "" /\ lret.err # "" /\ exchangeCalls = 0)

\* C9 witness: Login has returned on a line of blanks only, without exchange.
C9_Witness ==
    /\ lpc = "returned"
    /\ stdinEv.kind = "line"
    /\ Len(stdinEv.text) >= 1
    /\ AllWhitespace(stdinEv.text)
    /\ lret = [auth |-> "", err |-> "empty authorisation code provided"]
    /\ exchangeCalls = 0

=============================================================================
